---- MODULE Spec2Model ----
(***************************************************************************)
(* Model of seqan3::detail::convert_through_char_representation,           *)
(* seqan3::detail::convert_through_phred_representation (convert.hpp) and  *)
(* seqan3::detail::execution_handler_sequential::execute.                  *)
(*                                                                         *)
(* An alphabet is a record of what the builders read from the type:        *)
(*   bits         width in bits of the unsigned rank_type                  *)
(*   size         alphabet_size_v, the number of ranks                     *)
(*   value_size   the static member value_size (quality alphabets)         *)
(*   to_char      rank -> char          assign_char   char -> rank         *)
(*   to_phred     rank -> phred score   assign_phred  score -> rank        *)
(* A value of an alphabet is identified with its rank (assign_rank and     *)
(* to_rank are mutual inverses), so table entries are ranks of out_t.      *)
(***************************************************************************)
EXTENDS Integers, Sequences, FiniteSets, TLC

VARIABLES
    path,        \* "char" | "phred": which variable template is instantiated; "off"
    in_t,        \* the input alphabet (template parameter in_t)
    out_t,       \* the output alphabet (template parameter out_t)
    pc,          \* position of the initialiser lambda: start, loop, done, fault
    i,           \* the loop counter, of type in_t::rank_type
    table_size,  \* the local table_size of the phred builder
    ret,         \* the local array ret, indexed 0 .. size-1
    order,       \* the indices at which ret[i] was written, in order
    scores,      \* the scores passed to assign_phred, in order
    builds,      \* how many times the initialiser ran
    observed,    \* the last lookup a reader made into the finished table
    epc,         \* position inside execute(): entered .. returned; "off"
    func,        \* the callable func, as the value it returns per argument
    res,         \* the result slot res (passed to func by reference)
    farg,        \* the argument func was invoked with
    fret,        \* the value func returned
    darg,        \* the argument delegate was invoked with
    trace        \* the calls and returns made by execute(), in order

convVars == <<path, in_t, out_t, pc, i, table_size, ret, order, scores, builds, observed>>
execVars == <<epc, func, res, farg, fret, darg, trace>>
vars == <<path, in_t, out_t, pc, i, table_size, ret, order, scores, builds, observed,
          epc, func, res, farg, fret, darg, trace>>

----------------------------------------------------------------------------
(* Bounds of the model *)

MaxBits == 2          \* rank_type widths 1 .. MaxBits
MaxSize == 2          \* alphabet sizes 1 .. MaxSize
MaxValueSize == 4     \* value_size 1 .. MaxValueSize
MaxChar == 1          \* chars 0 .. MaxChar
MaxPhred == 1         \* phred scores -1 .. MaxPhred
MaxIters == 5         \* cap on the recorded loop iterations
MaxVal == 2           \* func_result_t values 0 .. MaxVal

RankBits == 1..MaxBits
Chars == 0..MaxChar
PhredDom == (0 - 1)..MaxPhred
Scores == 0..MaxPhred
Values == 0..MaxVal
Readers == {"t1", "t2"}
None == [rank |-> 0 - 1, value |-> 0 - 1]

\* std::array<out_t, N> ret{} value-initialises every entry: rank 0.
Default == 0

Ranks(a) == 0..(a.size - 1)

----------------------------------------------------------------------------
(* The alphabets the builders are instantiated with *)

Alphabet(b, s, vs, tc, ac, tp, ap) ==
    [bits |-> b, size |-> s, value_size |-> vs,
     to_char |-> tc, assign_char |-> ac, to_phred |-> tp, assign_phred |-> ap]

\* sizes whose ranks 0 .. s-1 all fit in a b-bit rank_type
Shapes == {sh \in RankBits \X (1..MaxSize) : sh[2] <= 2^(sh[1])}

MinBits(s) == CHOOSE b \in RankBits : s <= 2^b /\ \A c \in RankBits : s <= 2^c => b <= c

\* canonical values of the members a builder never reads
NoToChar(s) == [r \in 0..(s - 1) |-> 0]
NoAssignChar == [c \in Chars |-> 0]
NoToPhred(s) == [r \in 0..(s - 1) |-> 0]
NoAssignPhred == [p \in Scores |-> 0]

----------------------------------------------------------------------------
(* The arithmetic of the builders *)

\* conversion of n to the unsigned rank_type of alphabet a
ToRankType(a, n) == n % (2^(a.bits))

\* std::min(x, y): (y < x) ? y : x
StdMin(x, y) == IF y < x THEN y ELSE x

\* std::max(x, y): (x < y) ? y : x
StdMax(x, y) == IF x < y THEN y ELSE x

\* the mathematical minimum of the two value sizes
MinValueSize == IF in_t.value_size <= out_t.value_size THEN in_t.value_size
                ELSE out_t.value_size

\* std::max instead of std::min
TableSizeMax ==
    StdMax(ToRankType(in_t, in_t.value_size), ToRankType(in_t, out_t.value_size))

\* std::min<typename in_t::rank_type>(in_t::value_size, out_t::value_size):
\* both operands are converted to in_t::rank_type first
TableSize ==
    StdMin(ToRankType(in_t, in_t.value_size), ToRankType(in_t, out_t.value_size))

\* off by one: i + 1 < alphabet_size_v<in_t>
CharLoopCondShort == i + 1 < in_t.size

\* i < alphabet_size_v<in_t>; i is promoted, the comparison is exact
CharLoopCond == i < in_t.size

\* i < table_size, both of rank_type
PhredLoopCond == i < table_size

\* ++i on rank_type: wraps modulo 2^bits
Incr == ToRankType(in_t, i + 1)

\* assign_char(ret[r], to_char(assign_rank(in_t{}, r)))
CharEntry(r) == out_t.assign_char[in_t.to_char[r]]

\* the score handed on without the std::max
ClampNone(p) == p

\* std::max<typename in_t::phred_type>(0, p)
Clamp(p) == StdMax(0, p)

\* assign_phred on alphabet a; a score outside the domain a declares is
\* outside its contract and is never passed by the builder
AssignPhred(a, p) == IF p \in DOMAIN a.assign_phred THEN a.assign_phred[p] ELSE Default

\* assign_phred(ret[r], std::max<phred_type>(0, to_phred(assign_rank(in_t{}, r))))
PhredEntry(r) == AssignPhred(out_t, Clamp(in_t.to_phred[r]))

----------------------------------------------------------------------------
(* Initial states *)

ExecOff ==
    /\ epc = "off" /\ func = <<>> /\ res = 0
    /\ farg = 0 - 1 /\ fret = 0 - 1 /\ darg = 0 - 1 /\ trace = <<>>

ConvOff ==
    /\ path = "off" /\ in_t = <<>> /\ out_t = <<>> /\ pc = "off" /\ i = 0
    /\ table_size = 0 /\ ret = <<>> /\ order = <<>> /\ scores = <<>>
    /\ builds = 0 /\ observed = None

BuilderStart ==
    /\ pc = "start" /\ i = 0 /\ table_size = 0 /\ ret = <<>>
    /\ order = <<>> /\ scores = <<>> /\ builds = 0 /\ observed = None

\* convert_through_char_representation<out_t, in_t>: the members it reads
InitChar ==
    /\ path = "char"
    /\ \E sh \in Shapes : \E tc \in [0..(sh[2] - 1) -> Chars] :
          in_t = Alphabet(sh[1], sh[2], sh[2], tc, NoAssignChar,
                          NoToPhred(sh[2]), NoAssignPhred)
    /\ \E s \in 1..MaxSize : \E ac \in [Chars -> 0..(s - 1)] :
          out_t = Alphabet(MinBits(s), s, s, NoToChar(s), ac,
                           NoToPhred(s), NoAssignPhred)
    /\ BuilderStart

\* convert_through_phred_representation<out_t, in_t>: the members it reads
InitPhred ==
    /\ path = "phred"
    /\ \E sh \in Shapes : \E vs \in 1..MaxValueSize :
       \E tp \in [0..(sh[2] - 1) -> PhredDom] :
          in_t = Alphabet(sh[1], sh[2], vs, NoToChar(sh[2]), NoAssignChar,
                          tp, NoAssignPhred)
    /\ \E s \in 1..MaxSize : \E vs \in 1..MaxValueSize :
       \E ap \in [Scores -> 0..(s - 1)] :
          out_t = Alphabet(MinBits(s), s, vs, NoToChar(s), NoAssignChar,
                           NoToPhred(s), ap)
    /\ BuilderStart

Init ==
    /\ InitChar \/ InitPhred
    /\ ExecOff

----------------------------------------------------------------------------
(* convert_through_char_representation: the initialiser lambda *)

\* std::array<out_t, alphabet_size_v<in_t>> ret{};  i = 0
CharBegin ==
    /\ path = "char" /\ pc = "start"
    /\ ret' = [r \in Ranks(in_t) |-> Default]
    /\ i' = 0
    /\ builds' = builds + 1
    /\ pc' = "loop"
    /\ UNCHANGED <<path, in_t, out_t, table_size, order, scores, observed>>
    /\ UNCHANGED execVars

\* one iteration: assign_char(ret[i], ...); ++i
CharStep ==
    /\ path = "char" /\ pc = "loop"
    /\ CharLoopCond
    /\ Len(order) < MaxIters
    /\ ret' = [ret EXCEPT ![i] = CharEntry(i)]
    /\ order' = Append(order, i)
    /\ i' = Incr
    /\ UNCHANGED <<path, in_t, out_t, pc, table_size, scores, builds, observed>>
    /\ UNCHANGED execVars

\* the loop condition fails: return ret
CharReturn ==
    /\ path = "char" /\ pc = "loop"
    /\ ~CharLoopCond
    /\ pc' = "done"
    /\ UNCHANGED <<path, in_t, out_t, i, table_size, ret, order, scores, builds, observed>>
    /\ UNCHANGED execVars

----------------------------------------------------------------------------
(* convert_through_phred_representation: the initialiser lambda *)

\* ret{}; table_size = std::min<rank_type>(...); i = 0
PhredBegin ==
    /\ path = "phred" /\ pc = "start"
    /\ ret' = [r \in Ranks(in_t) |-> Default]
    /\ table_size' = TableSize
    /\ i' = 0
    /\ builds' = builds + 1
    /\ pc' = "loop"
    /\ UNCHANGED <<path, in_t, out_t, order, scores, observed>>
    /\ UNCHANGED execVars

\* one iteration with i inside the array
PhredStep ==
    /\ path = "phred" /\ pc = "loop"
    /\ PhredLoopCond
    /\ i \in DOMAIN ret
    /\ Len(order) < MaxIters
    /\ ret' = [ret EXCEPT ![i] = PhredEntry(i)]
    /\ order' = Append(order, i)
    /\ scores' = Append(scores, Clamp(in_t.to_phred[i]))
    /\ i' = Incr
    /\ UNCHANGED <<path, in_t, out_t, pc, table_size, builds, observed>>
    /\ UNCHANGED execVars

\* one iteration with i past the end of ret: assign_rank(in_t{}, i) is outside
\* the rank domain and ret[i] is outside the array.  The value to_phred yields
\* is arbitrary; the evaluation is either rejected or carries on, the entries
\* of ret untouched.
PhredStepOutside ==
    /\ path = "phred" /\ pc = "loop"
    /\ PhredLoopCond
    /\ i \notin DOMAIN ret
    /\ Len(order) < MaxIters
    /\ \E p \in PhredDom : scores' = Append(scores, Clamp(p))
    /\ order' = Append(order, i)
    /\ i' = Incr
    /\ pc' \in {"loop", "fault"}
    /\ UNCHANGED <<path, in_t, out_t, table_size, ret, builds, observed>>
    /\ UNCHANGED execVars

\* the loop condition fails: return ret
PhredReturn ==
    /\ path = "phred" /\ pc = "loop"
    /\ ~PhredLoopCond
    /\ pc' = "done"
    /\ UNCHANGED <<path, in_t, out_t, i, table_size, ret, order, scores, builds, observed>>
    /\ UNCHANGED execVars

----------------------------------------------------------------------------
(* Readers of the table *)

\* a reader may index the table before the initialiser has returned
TableReadyLazy == pc \in {"loop", "done"}

\* the variable templates are constexpr: the array is a constant of the
\* program, complete before any code that can read it runs
TableReady == pc = "done"

\* convert(value) = T[to_rank(value)]
Lookup(t, r) ==
    /\ TableReady
    /\ r \in DOMAIN ret
    /\ observed' = [rank |-> r, value |-> ret[r]]
    /\ UNCHANGED <<path, in_t, out_t, pc, i, table_size, ret, order, scores, builds>>
    /\ UNCHANGED execVars

Next ==
    \/ CharBegin
    \/ CharStep
    \/ CharReturn
    \/ PhredBegin
    \/ PhredStep
    \/ PhredStepOutside
    \/ PhredReturn
    \/ \E t \in Readers : \E r \in Ranks(in_t) : Lookup(t, r)

Spec == Init /\ [][Next]_vars

----------------------------------------------------------------------------
(* The same builders on other sets of alphabets *)

\* out_t = in_t = A, for every alphabet A with all its members
InitSame ==
    /\ path \in {"char", "phred"}
    /\ \E sh \in Shapes : \E vs \in 1..MaxValueSize :
       \E tc \in [0..(sh[2] - 1) -> Chars] : \E ac \in [Chars -> 0..(sh[2] - 1)] :
       \E tp \in [0..(sh[2] - 1) -> PhredDom] : \E ap \in [Scores -> 0..(sh[2] - 1)] :
          in_t = Alphabet(sh[1], sh[2], vs, tc, ac, tp, ap)
    /\ out_t = in_t
    /\ BuilderStart
    /\ ExecOff

SpecSame == InitSame /\ [][Next]_vars

\* quality alphabets with the to_phred of out_t, which the builder never calls
\* but which gives the phred score of a table entry
InitQuality ==
    /\ path = "phred"
    /\ \E sh \in Shapes : \E vs \in 1..MaxValueSize :
       \E tp \in [0..(sh[2] - 1) -> PhredDom] :
          in_t = Alphabet(sh[1], sh[2], vs, NoToChar(sh[2]), NoAssignChar,
                          tp, NoAssignPhred)
    /\ \E s \in 1..MaxSize : \E vs \in 1..MaxValueSize :
       \E tp \in [0..(s - 1) -> PhredDom] : \E ap \in [Scores -> 0..(s - 1)] :
          out_t = Alphabet(MinBits(s), s, vs, NoToChar(s), NoAssignChar, tp, ap)
    /\ BuilderStart

InitQualityOrChar ==
    /\ InitChar \/ InitQuality
    /\ ExecOff

SpecQuality == InitQualityOrChar /\ [][Next]_vars

----------------------------------------------------------------------------
(* execution_handler_sequential::execute(func, res, delegate) *)

InitExec ==
    /\ ConvOff
    /\ epc = "entered"
    /\ func \in [Values -> Values]
    /\ res \in Values
    /\ farg = 0 - 1 /\ fret = 0 - 1 /\ darg = 0 - 1
    /\ trace = <<>>

\* the argument expression func(res) is evaluated first: func is entered
CallFunc ==
    /\ epc = "entered"
    /\ farg' = res
    /\ trace' = Append(trace, "func")
    /\ epc' = "in_func"
    /\ UNCHANGED <<func, res, fret, darg>>
    /\ UNCHANGED convVars

\* func returns its value; it holds res by reference and may have written it
FuncReturn ==
    /\ epc = "in_func"
    /\ fret' = func[farg]
    /\ res' \in Values
    /\ trace' = Append(trace, "func_ret")
    /\ epc' = "func_ret"
    /\ UNCHANGED <<func, farg, darg>>
    /\ UNCHANGED convVars

\* delegate is handed the result slot instead of the returned value
DelegateArgRes == res

\* delegate(func(res)): the argument is the value func returned
DelegateArg == fret

\* delegate is entered with that value
CallDelegate ==
    /\ epc = "func_ret"
    /\ darg' = DelegateArg
    /\ trace' = Append(trace, "delegate")
    /\ epc' = "in_delegate"
    /\ UNCHANGED <<func, res, farg, fret>>
    /\ UNCHANGED convVars

\* delegate returns
DelegateReturn ==
    /\ epc = "in_delegate"
    /\ trace' = Append(trace, "delegate_ret")
    /\ epc' = "delegate_ret"
    /\ UNCHANGED <<func, res, farg, fret, darg>>
    /\ UNCHANGED convVars

\* execute returns to its caller
ExecuteReturn ==
    /\ epc = "delegate_ret"
    /\ epc' = "returned"
    /\ UNCHANGED <<func, res, farg, fret, darg, trace>>
    /\ UNCHANGED convVars

NextExec ==
    \/ CallFunc
    \/ FuncReturn
    \/ CallDelegate
    \/ DelegateReturn
    \/ ExecuteReturn

SpecExec == InitExec /\ [][NextExec]_vars

----------------------------------------------------------------------------
(* Properties *)

Written(r) == {k \in 1..Len(order) : order[k] = r}

Saturated(p) == IF p < 0 THEN 0 ELSE p

\* C1: when the char-path initialiser has returned, the table has one entry
\* per rank of in_t, entry r is assign_char of out_t applied to to_char of
\* the value of in_t with rank r, and every entry was written exactly once.
C1_CharTable ==
    (path = "char" /\ pc = "done") =>
        /\ DOMAIN ret = Ranks(in_t)
        /\ \A r \in Ranks(in_t) :
              /\ ret[r] = out_t.assign_char[in_t.to_char[r]]
              /\ Cardinality(Written(r)) = 1

C1_Witness ==
    /\ path = "char" /\ pc = "done"
    /\ in_t.size >= 2
    /\ \E r1, r2 \in Ranks(in_t) : ret[r1] # ret[r2]

\* C2: when the phred-path initialiser has returned, every entry r below the
\* mathematical minimum of the two value sizes is assign_phred of out_t
\* applied to max(0, to_phred of the value of in_t with rank r).
C2_MappedRange ==
    (path = "phred" /\ pc = "done") =>
        \A r \in Ranks(in_t) :
            r < MinValueSize =>
                ret[r] = out_t.assign_phred[Saturated(in_t.to_phred[r])]

\* C3: on the phred path every entry r with min(value_size(in_t),
\* value_size(out_t)) <= r < size(in_t) is never written and holds the
\* default-constructed value of out_t.
C3_UnmappedRange ==
    path = "phred" =>
        \A r \in DOMAIN ret :
            r >= MinValueSize => (ret[r] = Default /\ Written(r) = {})

C3_Witness ==
    /\ path = "phred" /\ pc = "done"
    /\ in_t.value_size > out_t.value_size
    /\ \E r \in DOMAIN ret :
          /\ r >= MinValueSize
          /\ out_t.assign_phred[Saturated(in_t.to_phred[r])] # Default
    /\ \E r \in DOMAIN ret : r < MinValueSize /\ ret[r] # Default

\* C4: every score the phred path passes to assign_phred is non-negative; it
\* is 0 where to_phred of the rank is negative and to_phred itself otherwise.
C4_Saturation ==
    path = "phred" =>
        /\ Len(scores) = Len(order)
        /\ \A k \in 1..Len(scores) :
              /\ scores[k] >= 0
              /\ order[k] \in Ranks(in_t) =>
                    scores[k] = Saturated(in_t.to_phred[order[k]])

C4_Witness ==
    /\ path = "phred" /\ pc = "done"
    /\ \E k \in 1..Len(scores) :
          order[k] \in Ranks(in_t) /\ in_t.to_phred[order[k]] < 0 /\ scores[k] = 0
    /\ \E k \in 1..Len(scores) :
          order[k] \in Ranks(in_t) /\ in_t.to_phred[order[k]] > 0 /\ scores[k] > 0

\* an alphabet whose own char and phred round trips are the identity and
\* whose value_size is its size
RoundTrips(a) ==
    /\ a.value_size = a.size
    /\ \A r \in Ranks(a) :
          /\ a.assign_char[a.to_char[r]] = r
          /\ a.to_phred[r] >= 0
          /\ a.assign_phred[a.to_phred[r]] = r

\* C5: with out_t = in_t = A the finished table maps every rank r to the value
\* of A with rank r, on either path (stated for the alphabets A whose own
\* round trips are the identity).
C5_Identity ==
    (pc = "done" /\ out_t = in_t /\ RoundTrips(in_t)) =>
        \A r \in Ranks(in_t) : ret[r] = r

\* the phred domain of out_t covers every score the conversion of in_t involves
Covers ==
    \A r \in Ranks(in_t) :
        out_t.to_phred[out_t.assign_phred[Saturated(in_t.to_phred[r])]]
            = Saturated(in_t.to_phred[r])

\* C6: on the finished phred table, for ranks r1 < r2 of in_t with
\* to_phred(r1) <= to_phred(r2), the phred score of entry r1 is at most the
\* phred score of entry r2, wherever r2 lies.
C6_Monotone ==
    (path = "phred" /\ pc = "done" /\ Covers) =>
        \A r1, r2 \in Ranks(in_t) :
            (r1 < r2 /\ in_t.to_phred[r1] <= in_t.to_phred[r2]) =>
                out_t.to_phred[ret[r1]] <= out_t.to_phred[ret[r2]]

ExecuteOrder == <<"func", "func_ret", "delegate", "delegate_ret">>

\* C7: execute calls func once with res, func returns before delegate is
\* entered, delegate is called once with the value func returned, and execute
\* returns only after delegate has returned.
C7_Sequential ==
    epc # "off" =>
        /\ Len(trace) <= Len(ExecuteOrder)
        /\ \A k \in 1..Len(trace) : trace[k] = ExecuteOrder[k]
        /\ epc = "in_func" => farg = res
        /\ epc \in {"in_delegate", "delegate_ret", "returned"} => darg = func[farg]
        /\ epc = "returned" => trace = ExecuteOrder

C7_Witness ==
    /\ epc = "returned"
    /\ darg = func[farg]
    /\ darg # farg
    /\ res # darg

\* the entry the finished table holds at rank r
FinalEntry(r) ==
    IF path = "char" THEN out_t.assign_char[in_t.to_char[r]]
    ELSE IF r < table_size THEN out_t.assign_phred[Saturated(in_t.to_phred[r])]
    ELSE Default

\* C8: the table is built once, no entry changes once the initialiser has
\* returned, and every lookup sees the finished table.
C8_BuildOnceReadOnly ==
    /\ [](/\ builds <= 1
          /\ pc \in {"loop", "done", "fault"} => builds = 1
          /\ observed # None =>
                /\ pc = "done"
                /\ observed.value = FinalEntry(observed.rank))
    /\ [][pc = "done" => (pc' = "done" /\ ret' = ret)]_vars

C8_Witness ==
    /\ pc = "done"
    /\ in_t.size >= 2
    /\ observed # None
    /\ observed.rank > 0
    /\ observed.value # Default

\* C9: the loop visits the ranks 0, 1, 2, ... once each in increasing order;
\* the counter never wraps back to 0.
C9_NoWrap ==
    /\ \A k \in 1..Len(order) : order[k] = k - 1
    /\ (path = "char" /\ pc = "done") => Len(order) = in_t.size

\* C10: every index at which the phred path writes ret[i] lies in
\* [0, size(in_t)).
C10_IndexInRange ==
    path = "phred" => \A k \in 1..Len(order) : order[k] \in Ranks(in_t)

====
